---- MODULE Spec2Model ----
(***************************************************************************)
(* The websocket chat handler of app/api.py (chat): the per-conversation  *)
(* confirmation trigger kept in agent_last_question, the terminal handoff  *)
(* to extraction, persistence and matching, and the handler's three exits  *)
(* (break, WebSocketDisconnect, any other exception).                      *)
(*                                                                         *)
(* Every await of the coroutine is one position of pc; an action is the    *)
(* completion of that await together with the synchronous code that runs   *)
(* up to the next await.                                                   *)
(***************************************************************************)
EXTENDS Integers, Sequences, FiniteSets, TLC

\* ------------------------------------------------------------------ bounds
\* total number of user messages received, over all channels
MaxRecv == 3
\* total number of websocket connections accepted
MaxConnects == 2

\* websocket connections (handler coroutines) and conversation identifiers
Chans == {"w1", "w2"}
Convs == {"a", "b"}
\* Spec runs one connection at a time, reopened after it ends, on one
\* conversation
SeqChans == {"w1"}
SeqConvs == {"a"}

\* ------------------------------------------------------------------- texts
\* A user payload is a sequence of characters, an agent reply a sequence of
\* words; str.lower, `in` and json.loads work on these sequences.

ConfirmPhrase == <<"Is", "this", "summary", "correct?">>

\* needle in hay (Python's substring test)
Contains(needle, hay) ==
    \E i \in 0..(Len(hay) - Len(needle)) :
        SubSeq(hay, i + 1, i + Len(needle)) = needle

LowerChar(ch) ==
    CASE ch = "Y" -> "y"
      [] ch = "E" -> "e"
      [] ch = "S" -> "s"
      [] ch = "N" -> "n"
      [] ch = "O" -> "o"
      [] OTHER -> ch

\* str.lower()
Lower(s) == [i \in 1..Len(s) |-> LowerChar(s[i])]

Yes == <<"y", "e", "s">>

\* the payloads a client sends
PlainYes == <<"y", "e", "s">>
UpperYes == <<"Y", "E", "S">>
PaddedYes == <<" ", "y", "e", "s", "\n">>
QuotedYes == <<"\"", "y", "e", "s", "\"">>
NoWait == <<"N", "o">>
\* {"action": "continue_conversation", "chat_history": [...]}
ContinueMsg == <<"{", "action", ":", "continue_conversation", "}">>

UserPayloads == {PlainYes, UpperYes, PaddedYes, QuotedYes, NoWait, ContinueMsg}

\* json.loads on a payload: a JSON object, a JSON string literal, or a
\* JSONDecodeError
JsonKind(raw) ==
    IF Len(raw) >= 2 /\ raw[1] = "{" /\ raw[Len(raw)] = "}" THEN "object"
    ELSE IF Len(raw) >= 2 /\ raw[1] = "\"" /\ raw[Len(raw)] = "\"" THEN "string"
    ELSE "error"

\* query.get('action') == "continue_conversation" on a parsed dict
IsContinuation(raw) ==
    /\ JsonKind(raw) = "object"
    /\ Contains(<<"action", ":", "continue_conversation">>, raw)

\* str(query) after the try/except around json.loads
StrQuery(raw) ==
    IF JsonKind(raw) = "string" THEN SubSeq(raw, 2, Len(raw) - 1) ELSE raw

\* the replies assistant.run can return in response['response']: a JSON text
\* with a "response" member, with or without the confirmation question, and a
\* bare text that is no JSON
ReplyQuestion == <<"{response:", "What", "brand?", "}">>
ReplyConfirm == <<"{response:", "Summary.", "Is", "this", "summary", "correct?", "}">>
ReplyBare == ConfirmPhrase

AgentReplies == {ReplyQuestion, ReplyConfirm, ReplyBare}

\* json.loads(agent_response_text)["response"] succeeds
JsonHasResponse(text) ==
    Len(text) >= 2 /\ text[1] = "{response:" /\ text[Len(text)] = "}"

JsonResponse(text) == SubSeq(text, 2, Len(text) - 1)

\* ------------------------------------------------------------ dictionaries
\* agent_last_question maps every conversation identifier to <<>> (no key)
\* or <<text>> (the value stored under the key)
Has(d, k) == d[k] # <<>>
\* dict.get: <<>> is None
Get(d, k) == d[k]
Put(d, k, v) == [d EXCEPT ![k] = <<v>>]
Del(d, k) == [d EXCEPT ![k] = <<>>]

\* -------------------------------------------------- the handler's decisions
\* a trigger that compares the last question with the phrase for equality
chat_is_trigger_equality(last_question, q) ==
    /\ last_question # <<>>
    /\ last_question[1] = ConfirmPhrase
    /\ Lower(q) = Yes

\* a trigger that does not look at the last question
chat_is_trigger_any_state(last_question, q) ==
    Lower(q) = Yes

\* line 158: last_question and "Is this summary correct?" in last_question
\*           and str(query).lower() == "yes"
chat_is_trigger(last_question, q) ==
    /\ last_question # <<>>
    /\ last_question[1] # <<>>
    /\ Contains(ConfirmPhrase, last_question[1])
    /\ Lower(q) = Yes

\* a store that keeps the first question of a conversation
chat_store_question_once(alq, cid, text) ==
    IF Has(alq, cid) THEN alq ELSE Put(alq, cid, text)

\* line 207: agent_last_question[conversation_id] = agent_response_text
chat_store_question(alq, cid, text) == Put(alq, cid, text)

\* a disconnect handler that empties the whole mapping
chat_on_disconnect_clear_all(alq, cid) == [k \in DOMAIN alq |-> <<>>]

\* lines 222-223: if conversation_id in agent_last_question: del ...
chat_on_disconnect(alq, cid) == IF Has(alq, cid) THEN Del(alq, cid) ELSE alq

\* lines 226-229: the generic handler leaves agent_last_question alone
chat_on_exception(alq, cid) == alq

\* a validation that accepts every extracted object
chat_validates_anything(data) == TRUE

\* line 178: UserIssueCreate(**extracted_data) accepts the extracted object
chat_validates(data) == data = "valid"

\* line 186: `if geeks:` on the result object, which defines neither
\* __bool__ nor __len__ (lines 185 and 187 use geeks.geeks and
\* geeks.model_dump_json()), so that every result is true
chat_result_is_true(result) == TRUE

\* lines 186-189: the final message chosen for a matcher result
chat_final_message(result) ==
    IF chat_result_is_true(result) THEN "select" ELSE "no_geeks"

\* a handoff without the break: the loop goes on at line 197
chat_after_cleanup_no_break == "run"

\* line 195: break leaves the receive loop
chat_after_cleanup == "done"

\* a history read that misses the message stored last
chat_transcript_without_last(messages) ==
    IF messages = <<>> THEN <<>> ELSE SubSeq(messages, 1, Len(messages) - 1)

\* lines 163-164: the transcript is made of every message of the history
\* read after the append of line 151, in stored order
chat_transcript(messages) ==
    [i \in 1..Len(messages) |->
        [sender |-> messages[i].sender, message |-> messages[i].message,
         by |-> messages[i].by]]

\* a handoff that calls the matcher before the issue is persisted
chat_after_validate_match_first == "match"

\* line 179 comes before line 184: the position after the status message
chat_after_validate == "persist"

\* ---------------------------------------------------------------- the state
VARIABLES
    agent_last_question,  \* api.py:59, conversation_id -> last agent reply text
    chat_messages,        \* transcript store, conversation_id -> messages
    user_issues,          \* issue store: the issues persisted
    pc,                   \* position of each handler coroutine
    conversation_id,      \* the conversation a connection serves
    query,                \* str(query) of the message being processed
    response,             \* response['response'] of the agent turn
    extracted_data,       \* what extract_issue_details returned
    geeks,                \* what get_geeks_from_user_issue returned
    client,               \* whether the peer is still connected
    obs,                  \* what each connection has done so far
    nrecv,
    nconn,
    directory,            \* agent_tools.py:180-182, the collections of db
    structured_issue,     \* the extracted object the issue is built from
    user_issue,           \* the UserIssueInDB passed to the matcher
    paging,               \* the page and page_size keywords of the call
    suitable_geeks,       \* how get_geeks_from_user_issue ended
    mpc                   \* position of the matcher run

shared == <<agent_last_question, chat_messages, user_issues>>
locals == <<query, response, extracted_data, geeks>>
handler == <<agent_last_question, chat_messages, user_issues, pc, conversation_id,
             query, response, extracted_data, geeks, client, obs, nrecv, nconn>>
matcher == <<directory, structured_issue, user_issue, paging, suitable_geeks, mpc>>
vars == <<handler, matcher>>

NoObs ==
    [conn |-> 0,               \* number of the connection
     received |-> 0,           \* messages received
     plain |-> <<>>,           \* the plain messages among them, as str(query)
     terminal |-> FALSE,       \* the test of line 158 succeeded
     state_at_check |-> "none",\* session state when line 158 ran on the message
     extract_calls |-> 0,      \* calls of extract_issue_details
     extract_result |-> "none",
     transcript |-> <<>>,      \* the history read at line 163
     persisted |-> FALSE,      \* create_user_issue returned
     match_result |-> "none",  \* how get_geeks_from_user_issue ended
     agent_calls |-> 0,        \* calls of assistant.run
     sent |-> <<>>,            \* send_message calls that returned
     gone_in_extract |-> FALSE,\* the peer disconnected during the extractor call
     timed_out |-> FALSE,      \* receive_message raised asyncio.TimeoutError
     exit |-> "none",          \* how the handler ended
     entry_at_exit |-> FALSE]  \* agent_last_question held the conversation then

InitHandler ==
    /\ agent_last_question = [cid \in Convs |-> <<>>]
    /\ chat_messages = [cid \in Convs |-> <<>>]
    /\ user_issues = {}
    /\ pc = [c \in Chans |-> "idle"]
    /\ conversation_id = [c \in Chans |-> "a"]
    /\ query = [c \in Chans |-> <<>>]
    /\ response = [c \in Chans |-> <<>>]
    /\ extracted_data = [c \in Chans |-> "none"]
    /\ geeks = [c \in Chans |-> <<>>]
    /\ client = [c \in Chans |-> "gone"]
    /\ obs = [c \in Chans |-> NoObs]
    /\ nrecv = 0
    /\ nconn = 0

\* no matcher run is looked at
MatcherOff ==
    /\ directory = [geeks |-> <<>>, categories |-> <<>>, subcategories |-> <<>>]
    /\ structured_issue = <<>>
    /\ user_issue = <<>>
    /\ paging = <<>>
    /\ suitable_geeks = <<>>
    /\ mpc = "off"

Init == InitHandler /\ MatcherOff

\* session state of a conversation, read off agent_last_question
SessionState(alq, cid) ==
    IF Has(alq, cid) /\ Contains(ConfirmPhrase, alq[cid][1])
    THEN "AWAITING_CONFIRMATION" ELSE "OPEN"

\* send_message calls whose errors leave the receive loop; the one at
\* send_final is inside the try of line 182
SendPcs == {"send_processing", "send_reply"}
StorePcs == {"append_user", "history", "persist", "append_agent"}

\* the handler of connection c ends: by break (line 195), in the
\* WebSocketDisconnect handler (221-225) or in the generic one (226-229)
Exit(c, how, alq, o) ==
    /\ pc' = [pc EXCEPT ![c] = "done"]
    /\ agent_last_question' = alq
    /\ obs' = [obs EXCEPT ![c] = [o EXCEPT !.exit = how,
                  !.entry_at_exit = Has(alq, conversation_id[c])]]

ExitDisconnect(c, o) ==
    Exit(c, "disconnect", chat_on_disconnect(agent_last_question, conversation_id[c]), o)

ExitException(c, alq, o) ==
    Exit(c, "exception", chat_on_exception(alq, conversation_id[c]), o)

\* lines 193-195: del agent_last_question[conversation_id] (a KeyError when
\* the key is gone), then break
Cleanup(c, o) ==
    IF Has(agent_last_question, conversation_id[c])
    THEN /\ agent_last_question' = Del(agent_last_question, conversation_id[c])
         /\ pc' = [pc EXCEPT ![c] = chat_after_cleanup]
         /\ obs' = [obs EXCEPT ![c] = [o EXCEPT
                  !.exit = IF chat_after_cleanup = "done" THEN "break" ELSE "none"]]
    ELSE ExitException(c, agent_last_question, o)

\* ------------------------------------------------------------- the actions
\* lines 119-126: a connection is accepted for a conversation identifier
Connect(c, cid) ==
    /\ pc[c] \in {"idle", "done"}
    /\ nconn < MaxConnects
    /\ nconn' = nconn + 1
    /\ pc' = [pc EXCEPT ![c] = "recv"]
    /\ conversation_id' = [conversation_id EXCEPT ![c] = cid]
    /\ client' = [client EXCEPT ![c] = "open"]
    /\ query' = [query EXCEPT ![c] = <<>>]
    /\ response' = [response EXCEPT ![c] = <<>>]
    /\ extracted_data' = [extracted_data EXCEPT ![c] = "none"]
    /\ geeks' = [geeks EXCEPT ![c] = <<>>]
    /\ obs' = [obs EXCEPT ![c] = [NoObs EXCEPT !.conn = nconn + 1]]
    /\ UNCHANGED <<shared, nrecv, matcher>>

\* the peer goes away, at any position of the handler
ClientDisconnect(c) ==
    /\ pc[c] \notin {"idle", "done"}
    /\ client[c] = "open"
    /\ client' = [client EXCEPT ![c] = "gone"]
    /\ obs' = [obs EXCEPT ![c].gone_in_extract = (pc[c] = "extract")]
    /\ UNCHANGED <<shared, pc, conversation_id, locals, nrecv, nconn, matcher>>

\* lines 131-151: a plain message is received and its append is awaited
ReceivePlain(c, raw) ==
    /\ pc[c] = "recv"
    /\ client[c] = "open"
    /\ nrecv < MaxRecv
    /\ ~IsContinuation(raw)
    /\ nrecv' = nrecv + 1
    /\ query' = [query EXCEPT ![c] = StrQuery(raw)]
    /\ pc' = [pc EXCEPT ![c] = "append_user"]
    /\ obs' = [obs EXCEPT ![c].received = @ + 1, ![c].state_at_check = "none",
                          ![c].terminal = FALSE,
                          ![c].plain = Append(@, StrQuery(raw))]
    /\ UNCHANGED <<shared, conversation_id, response, extracted_data, geeks, client, nconn, matcher>>

\* lines 131-145, 200: a continue_conversation message goes to the agent
ReceiveContinue(c, raw) ==
    /\ pc[c] = "recv"
    /\ client[c] = "open"
    /\ nrecv < MaxRecv
    /\ IsContinuation(raw)
    /\ nrecv' = nrecv + 1
    /\ query' = [query EXCEPT ![c] = raw]
    /\ pc' = [pc EXCEPT ![c] = "run"]
    /\ obs' = [obs EXCEPT ![c].received = @ + 1, ![c].state_at_check = "none",
                          ![c].terminal = FALSE, ![c].agent_calls = @ + 1]
    /\ UNCHANGED <<shared, conversation_id, response, extracted_data, geeks, client, nconn, matcher>>

\* lines 131, 221-225: receive_message raises WebSocketDisconnect
ReceiveDisconnect(c) ==
    /\ pc[c] = "recv"
    /\ client[c] = "gone"
    /\ ExitDisconnect(c, obs[c])
    /\ UNCHANGED <<chat_messages, user_issues, conversation_id, locals, client,
                   nrecv, nconn, matcher>>

\* lines 131, 217-218, 226-229: receive_message times out; send_message is
\* called with the websocket as the message and the text as the websocket,
\* which raises inside the handler of asyncio.TimeoutError
ReceiveTimeout(c) ==
    /\ pc[c] = "recv"
    /\ client[c] = "open"
    /\ ExitException(c, agent_last_question, [obs[c] EXCEPT !.timed_out = TRUE])
    /\ UNCHANGED <<chat_messages, user_issues, conversation_id, locals, client,
                   nrecv, nconn, matcher>>

\* lines 151-158, 197: the user message is stored, then the trigger is tested
AppendUser(c) ==
    LET cid == conversation_id[c]
        last_question == Get(agent_last_question, cid)
        hit == chat_is_trigger(last_question, query[c])
    IN  /\ pc[c] = "append_user"
        /\ chat_messages' = [chat_messages EXCEPT ![cid] =
               Append(@, [sender |-> "USER", message |-> query[c], by |-> c])]
        /\ pc' = [pc EXCEPT ![c] = IF hit THEN "history" ELSE "run"]
        /\ obs' = [obs EXCEPT ![c].terminal = hit,
                              ![c].state_at_check = SessionState(agent_last_question, cid),
                              ![c].agent_calls = IF hit THEN @ ELSE @ + 1]
        /\ UNCHANGED <<agent_last_question, user_issues, conversation_id, locals,
                       client, nrecv, nconn, matcher>>

\* lines 151, 163, 179, 215 -> 226-229: a transcript or issue store call raises
StoreRaises(c) ==
    /\ pc[c] \in StorePcs
    /\ ExitException(c, agent_last_question, obs[c])
    /\ UNCHANGED <<chat_messages, user_issues, conversation_id, locals, client,
                   nrecv, nconn, matcher>>

\* lines 163-168: the history is read and the extractor is called
FetchHistory(c) ==
    /\ pc[c] = "history"
    /\ pc' = [pc EXCEPT ![c] = "extract"]
    /\ obs' = [obs EXCEPT ![c].transcript =
                              chat_transcript(chat_messages[conversation_id[c]]),
                          ![c].extract_calls = @ + 1]
    /\ UNCHANGED <<shared, conversation_id, locals, client, nrecv, nconn, matcher>>

\* what extract_issue_details can return
ExtractedShapes == {"valid", "invalid"}

\* lines 168-174: the extractor returns and the status message is sent
ExtractReturns(c, data) ==
    /\ pc[c] = "extract"
    /\ extracted_data' = [extracted_data EXCEPT ![c] = data]
    /\ pc' = [pc EXCEPT ![c] = "send_processing"]
    /\ obs' = [obs EXCEPT ![c].extract_result = data]
    /\ UNCHANGED <<shared, conversation_id, query, response, geeks, client, nrecv,
                   nconn, matcher>>

\* lines 168, 226-229: the extractor raises
ExtractRaises(c) ==
    /\ pc[c] = "extract"
    /\ ExitException(c, agent_last_question, [obs[c] EXCEPT !.extract_result = "raise"])
    /\ UNCHANGED <<chat_messages, user_issues, conversation_id, locals, client,
                   nrecv, nconn, matcher>>

\* a send_message call on a connection whose peer is gone raises
\* WebSocketDisconnect, raises another error, or returns, by the server
SendRaisesDisconnect(c) ==
    /\ pc[c] \in SendPcs
    /\ client[c] = "gone"
    /\ ExitDisconnect(c, obs[c])
    /\ UNCHANGED <<chat_messages, user_issues, conversation_id, locals, client,
                   nrecv, nconn, matcher>>

SendRaisesError(c) ==
    /\ pc[c] \in SendPcs
    /\ client[c] = "gone"
    /\ ExitException(c, agent_last_question, obs[c])
    /\ UNCHANGED <<chat_messages, user_issues, conversation_id, locals, client,
                   nrecv, nconn, matcher>>

\* lines 174-179: the status message is sent, the extracted object validated
SendProcessing(c) ==
    LET o == [obs[c] EXCEPT !.sent = Append(@, "processing")]
    IN  /\ pc[c] = "send_processing"
        /\ IF chat_validates(extracted_data[c])
           THEN /\ pc' = [pc EXCEPT ![c] = chat_after_validate]
                /\ obs' = [obs EXCEPT ![c] = o]
                /\ UNCHANGED agent_last_question
           ELSE ExitException(c, agent_last_question, o)
        /\ UNCHANGED <<chat_messages, user_issues, conversation_id, locals, client,
                       nrecv, nconn, matcher>>

\* the issue a connection's handoff persists
Issue(c) == [conversation_id |-> conversation_id[c], conn |-> obs[c].conn]

\* lines 179-184: the issue is persisted, then the matcher is called
Persist(c) ==
    /\ pc[c] = "persist"
    /\ user_issues' = user_issues \cup {Issue(c)}
    /\ pc' = [pc EXCEPT ![c] = "match"]
    /\ obs' = [obs EXCEPT ![c].persisted = TRUE]
    /\ UNCHANGED <<agent_last_question, chat_messages, conversation_id, locals,
                   client, nrecv, nconn, matcher>>

\* the provider lists a matcher result can carry
MatchResults == {<<>>, <<"g1">>}

\* lines 184-186: the matcher returns its result object
MatchReturns(c, found) ==
    /\ pc[c] = "match"
    /\ geeks' = [geeks EXCEPT ![c] = <<found>>]
    /\ pc' = [pc EXCEPT ![c] = "send_final"]
    /\ obs' = [obs EXCEPT ![c].match_result = "returned"]
    /\ UNCHANGED <<shared, conversation_id, query, response, extracted_data,
                   client, nrecv, nconn, matcher>>

\* lines 184, 190-195: the matcher raises, the error is logged
MatchRaises(c) ==
    /\ pc[c] = "match"
    /\ Cleanup(c, [obs[c] EXCEPT !.match_result = "raised"])
    /\ UNCHANGED <<chat_messages, user_issues, conversation_id, locals, client,
                   nrecv, nconn, matcher>>

\* lines 186-189, 193-195: the final message is sent
SendFinal(c) ==
    /\ pc[c] = "send_final"
    /\ Cleanup(c, [obs[c] EXCEPT !.sent = Append(@, chat_final_message(geeks[c][1]))])
    /\ UNCHANGED <<chat_messages, user_issues, conversation_id, locals, client,
                   nrecv, nconn, matcher>>

\* lines 197/200-202: assistant.run returns a response
AgentReturns(c, reply) ==
    /\ pc[c] = "run"
    /\ response' = [response EXCEPT ![c] = reply]
    /\ pc' = [pc EXCEPT ![c] = "send_reply"]
    /\ UNCHANGED <<shared, conversation_id, query, extracted_data, geeks, client, obs,
                   nrecv, nconn, matcher>>

\* lines 187-195: send_message raises on a connection whose peer is gone;
\* line 190 catches WebSocketDisconnect like every other error and logs it
SendFinalRaises(c) ==
    /\ pc[c] = "send_final"
    /\ client[c] = "gone"
    /\ Cleanup(c, obs[c])
    /\ UNCHANGED <<chat_messages, user_issues, conversation_id, locals, client,
                   nrecv, nconn, matcher>>

\* utils/agent_setup.py 133-135: run returns None, response['response'] raises
AgentFails(c) ==
    /\ pc[c] = "run"
    /\ ExitException(c, agent_last_question, obs[c])
    /\ UNCHANGED <<chat_messages, user_issues, conversation_id, locals, client,
                   nrecv, nconn, matcher>>

\* lines 202-215: the reply is sent and stored as the last question, then
\* parsed for the transcript
SendReply(c) ==
    LET cid == conversation_id[c]
        alq == chat_store_question(agent_last_question, cid, response[c])
        o == [obs[c] EXCEPT !.sent = Append(@, "reply")]
    IN  /\ pc[c] = "send_reply"
        /\ IF JsonHasResponse(response[c])
           THEN /\ agent_last_question' = alq
                /\ pc' = [pc EXCEPT ![c] = "append_agent"]
                /\ obs' = [obs EXCEPT ![c] = o]
           ELSE ExitException(c, alq, o)
        /\ UNCHANGED <<chat_messages, user_issues, conversation_id, locals, client,
                       nrecv, nconn, matcher>>

\* lines 211-216: the agent message is stored; back to receive_message
AppendAgent(c) ==
    /\ pc[c] = "append_agent"
    /\ chat_messages' = [chat_messages EXCEPT ![conversation_id[c]] =
           Append(@, [sender |-> "BOT", message |-> JsonResponse(response[c]),
                      by |-> c])]
    /\ pc' = [pc EXCEPT ![c] = "recv"]
    /\ UNCHANGED <<agent_last_question, user_issues, conversation_id, locals,
                   client, obs, nrecv, nconn, matcher>>

NextOver(chans, convs, payloads) ==
    \/ \E c \in chans, cid \in convs : Connect(c, cid)
    \/ \E c \in chans : ClientDisconnect(c)
    \/ \E c \in chans, raw \in payloads : ReceivePlain(c, raw)
    \/ \E c \in chans, raw \in payloads : ReceiveContinue(c, raw)
    \/ \E c \in chans : ReceiveDisconnect(c)
    \/ \E c \in chans : ReceiveTimeout(c)
    \/ \E c \in chans : AppendUser(c)
    \/ \E c \in chans : StoreRaises(c)
    \/ \E c \in chans : FetchHistory(c)
    \/ \E c \in chans, data \in ExtractedShapes : ExtractReturns(c, data)
    \/ \E c \in chans : ExtractRaises(c)
    \/ \E c \in chans : SendRaisesDisconnect(c)
    \/ \E c \in chans : SendRaisesError(c)
    \/ \E c \in chans : SendProcessing(c)
    \/ \E c \in chans : Persist(c)
    \/ \E c \in chans, found \in MatchResults : MatchReturns(c, found)
    \/ \E c \in chans : MatchRaises(c)
    \/ \E c \in chans : SendFinal(c)
    \/ \E c \in chans : SendFinalRaises(c)
    \/ \E c \in chans, reply \in AgentReplies : AgentReturns(c, reply)
    \/ \E c \in chans : AgentFails(c)
    \/ \E c \in chans : SendReply(c)
    \/ \E c \in chans : AppendAgent(c)

Next == NextOver(SeqChans, SeqConvs, UserPayloads)

Spec == Init /\ [][Next]_vars

\* two connections at a time, each serving its own conversation
Serves == [c \in Chans |-> IF c = "w1" THEN "a" ELSE "b"]
PairPayloads == {PlainYes, ContinueMsg}
PairReplies == {ReplyConfirm, ReplyBare}

NextPair ==
    \/ \E c \in Chans : Connect(c, Serves[c])
    \/ \E c \in Chans : ClientDisconnect(c)
    \/ \E c \in Chans, raw \in PairPayloads : ReceivePlain(c, raw)
    \/ \E c \in Chans, raw \in PairPayloads : ReceiveContinue(c, raw)
    \/ \E c \in Chans : ReceiveDisconnect(c)
    \/ \E c \in Chans : ReceiveTimeout(c)
    \/ \E c \in Chans : AppendUser(c)
    \/ \E c \in Chans : StoreRaises(c)
    \/ \E c \in Chans : FetchHistory(c)
    \/ \E c \in Chans, data \in ExtractedShapes : ExtractReturns(c, data)
    \/ \E c \in Chans : ExtractRaises(c)
    \/ \E c \in Chans : SendRaisesDisconnect(c)
    \/ \E c \in Chans : SendRaisesError(c)
    \/ \E c \in Chans : SendProcessing(c)
    \/ \E c \in Chans : Persist(c)
    \/ \E c \in Chans, found \in MatchResults : MatchReturns(c, found)
    \/ \E c \in Chans : MatchRaises(c)
    \/ \E c \in Chans : SendFinal(c)
    \/ \E c \in Chans : SendFinalRaises(c)
    \/ \E c \in Chans, reply \in PairReplies : AgentReturns(c, reply)
    \/ \E c \in Chans : AgentFails(c)
    \/ \E c \in Chans : SendReply(c)
    \/ \E c \in Chans : AppendAgent(c)

SpecPair == Init /\ [][NextPair]_vars

\* two connections at a time, both opened with the same conversation_id
NextShared == NextOver(Chans, SeqConvs, PairPayloads)

SpecShared == Init /\ [][NextShared]_vars

\* ------------------------------------------------------------ the matcher
MaxGeeks == 2

\* the categories and subcategories collections, in natural order; one
\* subcategory carries the title of a category
Categories ==
    <<[_id |-> "c1", title |-> "Laptop"], [_id |-> "c2", title |-> "Phone"]>>
SubCategories ==
    <<[_id |-> "s1", title |-> "Screen"], [_id |-> "s2", title |-> "Laptop"]>>

\* documents of the geeks collection
GeekPool ==
    {[_id |-> "g1", primarySkill |-> "c1", secondarySkills |-> {}],
     [_id |-> "g2", primarySkill |-> "c2", secondarySkills |-> {"s1"}],
     [_id |-> "g3", primarySkill |-> "s2", secondarySkills |-> {"c2"}],
     [_id |-> "g4", primarySkill |-> "s1", secondarySkills |-> {}]}

\* the geeks collections looked at: up to MaxGeeks distinct documents
GeekLists ==
    {gs \in UNION {[1..n -> GeekPool] : n \in 0..MaxGeeks} :
        \A i, j \in 1..Len(gs) : i # j => gs[i] # gs[j]}

Directories ==
    {[geeks |-> gs, categories |-> Categories, subcategories |-> SubCategories] :
        gs \in GeekLists}

\* the names an extracted object can carry: None, or a title
CategoryNames == {<<>>, <<"Laptop">>, <<"Phone">>, <<"Tablet">>}
SubCategoryNames == {<<>>, <<"Screen">>, <<"Laptop">>}

\* the extracted objects: required fields, and category details that are
\* missing, None, or a pair of names
StructuredIssues ==
    {[user_id |-> "u1", conversation_id |-> "a", summary |-> "s"]}
    \cup {[user_id |-> "u1", conversation_id |-> "a", summary |-> "s",
            category_details |-> d] :
            d \in {<<>>} \cup {<<[category |-> cn, subcategory |-> sn]>> :
                                  cn \in CategoryNames, sn \in SubCategoryNames}}

\* user_issue_model.py 31-47: the fields of UserIssueInDB
UserIssueFields ==
    {"user_id", "conversation_id", "status", "device_details", "purchase_info",
     "problem_description", "summary", "created_at", "updated_at", "id"}

\* api.py:178-179: the issue object built from an extracted object; the
\* model keeps its own fields and ignores every other key
UserIssueInDB(data) ==
    [k \in DOMAIN data \cap UserIssueFields |-> data[k]]

\* collection.find_one({"title": title})
find_one(collection, title) ==
    LET hits == SelectSeq(collection, LAMBDA doc : doc.title = title)
    IN  IF hits = <<>> THEN <<>> ELSE <<hits[1]>>

\* agent_tools.py 186-199: the skill identifiers of an issue object that has
\* category details
skill_ids_of(db, issue) ==
    LET details == issue.category_details
        category_name == details[1].category
        subcategory_name == details[1].subcategory
        category_skill == find_one(db.categories, category_name[1])
        subcategory_skill == find_one(db.subcategories, subcategory_name[1])
        from_category ==
            IF category_skill # <<>> THEN <<category_skill[1]._id>> ELSE <<>>
        from_subcategory ==
            IF /\ subcategory_name # <<>>
               /\ subcategory_name # category_name
               /\ subcategory_skill # <<>>
            THEN <<subcategory_skill[1]._id>> ELSE <<>>
    IN  IF details # <<>> /\ category_name # <<>>
        THEN from_category \o from_subcategory ELSE <<>>

\* agent_tools.py 165-304
get_geeks_from_user_issue(db, issue) ==
    IF "category_details" \notin DOMAIN issue
    THEN \* line 186: the object has no such attribute
         [raised |-> "AttributeError", geeks |-> <<>>]
    ELSE LET skill_ids == skill_ids_of(db, issue)
             in_ids(x) == \E i \in 1..Len(skill_ids) : skill_ids[i] = x
             matches(geek) ==
                 \/ skill_ids = <<>>
                 \/ in_ids(geek.primarySkill)
                 \/ \E x \in geek.secondarySkills : in_ids(x)
         IN  [raised |-> "no", geeks |-> SelectSeq(db.geeks, matches)]

MaxPage == 2
MaxPageSize == 1

\* the keywords a call passes: none, or page and page_size (api.py:184)
Pagings ==
    {<<>>} \cup {<<[page |-> p, page_size |-> n]>> :
                    p \in 1..MaxPage, n \in 1..MaxPageSize}

\* agent_tools.py:165: the function takes db and user_issue and nothing
\* else, so a call with page and page_size raises before its body runs
call_get_geeks(db, issue, keywords) ==
    IF keywords # <<>>
    THEN [raised |-> "TypeError", geeks |-> <<>>]
    ELSE get_geeks_from_user_issue(db, issue)

InitMatch ==
    /\ InitHandler
    /\ directory \in Directories
    /\ structured_issue \in {<<data>> : data \in StructuredIssues}
    /\ paging \in Pagings
    /\ user_issue = <<>>
    /\ suitable_geeks = <<>>
    /\ mpc = "create"

\* api.py:178-179: the issue is built from the extracted object
MatchCreate ==
    /\ mpc = "create"
    /\ user_issue' = <<UserIssueInDB(structured_issue[1])>>
    /\ mpc' = "call"
    /\ UNCHANGED <<handler, directory, structured_issue, paging, suitable_geeks>>

\* the matcher is called with the issue object
MatchCall ==
    /\ mpc = "call"
    /\ suitable_geeks' = <<call_get_geeks(directory, user_issue[1], paging)>>
    /\ mpc' = "returned"
    /\ UNCHANGED <<handler, directory, structured_issue, user_issue, paging>>

NextMatch == MatchCreate \/ MatchCall

SpecMatch == InitMatch /\ [][NextMatch]_vars

\* ------------------------------------------------------------------ claims
HandoffPcs == {"history", "extract", "send_processing", "persist", "match", "send_final"}
AgentPcs == {"run", "send_reply", "append_agent"}

\* trimming, which the handler does not do (line 158 only lowercases)
Whitespace == {" ", "\n"}

RECURSIVE LStrip(_)
LStrip(s) == IF s # <<>> /\ Head(s) \in Whitespace THEN LStrip(Tail(s)) ELSE s

RECURSIVE RStrip(_)
RStrip(s) ==
    IF s # <<>> /\ s[Len(s)] \in Whitespace THEN RStrip(SubSeq(s, 1, Len(s) - 1)) ELSE s

\* str.strip()
Strip(s) == RStrip(LStrip(s))

\* the affirmation: "yes" case-insensitively and after trimming
IsAffirmation(q) == Lower(Strip(q)) = Yes

Awaiting == "AWAITING_CONFIRMATION"

BotMessages(cid) ==
    SelectSeq(chat_messages[cid], LAMBDA m : m.sender = "BOT")

\* C1: when the last agent reply contains the confirmation question and the
\* next user message is "yes", the session becomes TERMINAL, the extractor is
\* called once the history is read, and it is never called a second time on
\* the connection, which receives no further message.
C1_ExtractionExactlyOnce ==
    \A c \in Chans :
        LET o == obs[c] IN
        /\ o.extract_calls <= 1
        /\ (o.state_at_check = Awaiting /\ query[c] = Yes) => o.terminal
        /\ o.terminal => pc[c] \in HandoffPcs \cup {"done"}
        /\ (o.terminal /\ o.transcript # <<>>) => o.extract_calls = 1
        /\ o.extract_calls = 1 => o.terminal

C1_Witness ==
    \E c \in Chans :
        /\ pc[c] = "done"
        /\ obs[c].exit = "break"
        /\ query[c] = Yes
        /\ obs[c].state_at_check = Awaiting
        /\ obs[c].extract_calls = 1

\* C2: the extractor is called only for an affirmation received while
\* AWAITING_CONFIRMATION; every other message, also "yes" while OPEN, is
\* passed to the agent and the dialogue goes on.
C2_ExtractionOnlyOnConfirmedYes ==
    \A c \in Chans :
        LET o == obs[c]
            confirmed == o.state_at_check = Awaiting /\ IsAffirmation(query[c])
        IN  /\ o.terminal => confirmed
            /\ o.extract_calls > 0 => o.terminal
            /\ (o.state_at_check # "none" /\ ~confirmed) =>
                   /\ o.extract_calls = 0
                   /\ o.agent_calls = o.received
                   /\ pc[c] \in AgentPcs \cup {"recv", "done"}
            /\ pc[c] \in AgentPcs => o.agent_calls = o.received

C2_Witness ==
    \E c \in Chans :
        /\ pc[c] = "run"
        /\ query[c] = Yes
        /\ obs[c].state_at_check = "OPEN"
        /\ BotMessages(conversation_id[c]) = <<>>
        /\ ~Has(agent_last_question, conversation_id[c])

\* C3: after every agent turn of a connection the session state is that of
\* the reply just sent: AWAITING_CONFIRMATION exactly when the reply contains
\* the confirmation phrase, whatever the replies before it were.
C3_StateFromLastReply ==
    \A c \in Chans :
        (pc[c] \in {"append_agent", "recv"} /\ response[c] # <<>>) =>
            /\ Get(agent_last_question, conversation_id[c]) = <<response[c]>>
            /\ (SessionState(agent_last_question, conversation_id[c]) = Awaiting
                   <=> Contains(ConfirmPhrase, response[c]))

C3_Witness ==
    \E c \in Chans :
        /\ pc[c] = "recv"
        /\ response[c] = ReplyConfirm
        /\ response[c] # ConfirmPhrase
        /\ SessionState(agent_last_question, conversation_id[c]) = Awaiting
        /\ LET bot == BotMessages(conversation_id[c])
           IN  /\ Len(bot) = 3
               /\ Contains(ConfirmPhrase, bot[1].message)
               /\ ~Contains(ConfirmPhrase, bot[2].message)

\* C4: while AWAITING_CONFIRMATION a message moves the session to TERMINAL
\* exactly when it equals "yes" case-insensitively and after trimming.
C4_TrimmedYesIsTerminal ==
    \A c \in Chans :
        obs[c].state_at_check = Awaiting =>
            (obs[c].terminal <=> IsAffirmation(query[c]))

\* C5: once the session is TERMINAL the connection passes nothing to the
\* agent: the confirming message is not among the agent's inputs and the
\* handler is at no position that generates or stores an agent reply.
C5_NoAgentTurnAfterTerminal ==
    \A c \in Chans :
        obs[c].terminal =>
            /\ pc[c] \notin AgentPcs \cup {"recv", "append_user"}
            /\ obs[c].agent_calls = obs[c].received - 1

C5_Witness ==
    \E c \in Chans :
        /\ obs[c].terminal
        /\ pc[c] = "done"
        /\ obs[c].exit = "break"
        /\ obs[c].received = 2
        /\ obs[c].agent_calls = 1
        /\ Len(BotMessages(conversation_id[c])) = 1

\* C6: after a terminal handoff, whether the extractor, the validation, the
\* issue store or the matcher succeeds or fails, the handler ends with the
\* conversation's entry deleted from agent_last_question.
C6_EntryDeletedAfterHandoff ==
    \A c \in Chans :
        (pc[c] = "done" /\ obs[c].extract_calls = 1) => ~obs[c].entry_at_exit

\* C7: a connection whose peer disconnected, at whatever position of the
\* handler, ends with the conversation's entry removed.
C7_DisconnectRemovesEntry ==
    \A c \in Chans :
        (pc[c] = "done" /\ client[c] = "gone") => ~obs[c].entry_at_exit

\* C8: when the peer disconnects during the extractor call, the handler ends
\* with no issue persisted for the handoff and the entry removed.
C8_DisconnectMidExtraction ==
    \A c \in Chans :
        (pc[c] = "done" /\ obs[c].gone_in_extract) =>
            /\ Issue(c) \notin user_issues
            /\ ~obs[c].entry_at_exit

\* C9: the matcher is called only after the issue of the handoff has been
\* persisted, and the issue is still in the store after the matcher raised.
C9_IssuePersistedBeforeMatch ==
    \A c \in Chans :
        (pc[c] \in {"match", "send_final"} \/ obs[c].match_result # "none") =>
            /\ obs[c].persisted
            /\ Issue(c) \in user_issues

C9_Witness ==
    \E c \in Chans :
        /\ pc[c] = "done"
        /\ obs[c].match_result = "raised"
        /\ Issue(c) \in user_issues

\* C10: when the extractor raises, or returns an object the issue model
\* rejects, no issue is persisted for the handoff and the matcher is not
\* called.
C10_NoIssueFromFailedExtraction ==
    \A c \in Chans :
        obs[c].extract_result \in {"raise", "invalid"} =>
            /\ ~obs[c].persisted
            /\ Issue(c) \notin user_issues
            /\ obs[c].match_result = "none"
            /\ pc[c] \notin {"persist", "match", "send_final"}

C10_Witness ==
    \E c \in Chans :
        /\ pc[c] = "done"
        /\ obs[c].exit = "exception"
        /\ obs[c].extract_result = "invalid"
        /\ obs[c].sent # <<>>
        /\ obs[c].sent[Len(obs[c].sent)] = "processing"

\* the messages a connection sent after its agent turns: those of the handoff
\* and of the error handlers
SentAfterTurns(c) == SelectSeq(obs[c].sent, LAMBDA kind : kind # "reply")

\* C11: when the extractor raises, the handler ends the conversation and,
\* the peer still being connected, a message about the failure has been sent
\* on the connection before it is closed.
C11_ExtractionFailureReported ==
    \A c \in Chans :
        (pc[c] = "done" /\ obs[c].extract_result = "raise" /\ client[c] = "open") =>
            /\ obs[c].exit = "exception"
            /\ SentAfterTurns(c) # <<>>

\* C12: when the matcher raises during the handoff, the handler catches the
\* error, ends by the break and not in an error handler, and has sent the
\* "No suitable geeks found" message after the status message.
C12_MatcherErrorReported ==
    \A c \in Chans :
        (pc[c] = "done" /\ obs[c].match_result = "raised" /\ client[c] = "open") =>
            /\ obs[c].exit = "break"
            /\ SentAfterTurns(c) = <<"processing", "no_geeks">>

\* C13: a handoff whose extraction, persistence and matching succeeded has
\* sent, after the agent's replies, the status message and then exactly one
\* final message: the "select" message when the matcher found providers, the
\* "No suitable geeks found" message when it found none.
C13_ProcessingThenOneFinal ==
    \A c \in Chans :
        (/\ pc[c] = "done"
         /\ obs[c].exit = "break"
         /\ obs[c].match_result = "returned"
         /\ client[c] = "open") =>
            SentAfterTurns(c) =
                <<"processing", IF geeks[c][1] # <<>> THEN "select" ELSE "no_geeks">>

\* C14: a connection whose receive timed out has been sent a notice after
\* its last agent reply, and its handler has stopped: it is at no position
\* that receives or processes a message.
C14_TimeoutNoticeThenStop ==
    \A c \in Chans :
        obs[c].timed_out =>
            /\ pc[c] = "done"
            /\ SentAfterTurns(c) # <<>>

\* the step taken is one of connection c
StepOf(c) == pc'[c] # pc[c] \/ client'[c] # client[c]

\* C15: every step of a connection (agent turn, handoff, disconnect, error)
\* leaves the agent_last_question entry of every conversation other than its
\* own unchanged, and with it the outcome of the trigger test of every
\* connection serving another conversation.
C15_NoInterference ==
    [][\A c \in Chans :
          StepOf(c) =>
              \A cid \in Convs \ {conversation_id'[c]} :
                  /\ agent_last_question'[cid] = agent_last_question[cid]
                  /\ \A d \in Chans :
                         conversation_id[d] = cid =>
                             /\ obs'[d].terminal = obs[d].terminal
                             /\ chat_is_trigger(Get(agent_last_question', cid), query'[d])
                                    = chat_is_trigger(Get(agent_last_question, cid), query[d])
      ]_vars

\* a connection ended in the disconnect handler, which removed the entry of
\* its conversation, while another conversation is awaiting a confirmation
C15_Witness ==
    \E c, d \in Chans :
        /\ conversation_id[c] # conversation_id[d]
        /\ pc[c] = "done"
        /\ obs[c].exit = "disconnect"
        /\ obs[c].received > 0
        /\ ~Has(agent_last_question, conversation_id[c])
        /\ pc[d] = "append_user"
        /\ chat_is_trigger(Get(agent_last_question, conversation_id[d]), query[d])

\* C16: at most one assistant.run call is in progress for a conversation,
\* also when two connections were opened with the same conversation_id.
C16_OneAgentTurnAtATime ==
    \A c, d \in Chans :
        (c # d /\ conversation_id[c] = conversation_id[d]) =>
            ~(pc[c] = "run" /\ pc[d] = "run")

\* the issues persisted for a conversation
IssuesOf(cid) == {i \in user_issues : i.conversation_id = cid}

\* C17: whatever the connects, messages, handoffs and reconnects, and
\* however connections with the same conversation_id interleave, at most one
\* issue is persisted for a conversation.
C17_OneIssuePerConversation ==
    \A cid \in Convs : Cardinality(IssuesOf(cid)) <= 1

\* a connection is open for the conversation
Served(cid) ==
    \E c \in Chans : conversation_id[c] = cid /\ pc[c] \notin {"idle", "done"}

\* C18: while no connection is open for a conversation, agent_last_question
\* holds no entry for it, however the last connection ended; and a "yes"
\* received as the first message of a connection never starts the handoff.
C18_EntryOnlyWhileConnected ==
    /\ \A cid \in Convs : ~Served(cid) => ~Has(agent_last_question, cid)
    /\ \A c \in Chans :
           (obs[c].received = 1 /\ obs[c].state_at_check # "none" /\ query[c] = Yes) =>
               /\ obs[c].state_at_check = "OPEN"
               /\ ~obs[c].terminal

\* the category details of an extracted object are missing or None
NoCategoryDetails(data) ==
    "category_details" \notin DOMAIN data \/ data.category_details = <<>>

\* C19: for an issue whose category details are absent, the matcher raises
\* no error and returns every provider of the directory, unfiltered.
C19_NoDetailsNoFilter ==
    (mpc = "returned" /\ paging = <<>> /\ NoCategoryDetails(structured_issue[1])) =>
        /\ suitable_geeks[1].raised = "no"
        /\ suitable_geeks[1].geeks = directory.geeks

\* the identifiers of the documents of a collection that carry a title
IdsOfTitle(collection, name) ==
    {collection[i]._id : i \in {j \in 1..Len(collection) : collection[j].title = name}}

\* the skill identifiers {C.id, S.id} of an extracted object whose category
\* and subcategory both resolve; the empty set otherwise
ResolvedSkills(data) ==
    IF NoCategoryDetails(data) THEN {}
    ELSE LET d == data.category_details[1]
         IN  IF d.category = <<>> \/ d.subcategory = <<>> THEN {}
             ELSE LET C == IdsOfTitle(directory.categories, d.category[1])
                      S == IdsOfTitle(directory.subcategories, d.subcategory[1])
                  IN  IF C = {} \/ S = {} THEN {} ELSE C \cup S

\* C20: for an issue whose category resolves to C and whose subcategory
\* resolves to S, the matcher returns the providers whose primary skill is
\* C.id or S.id or whose secondary skills contain one of them: all of them
\* and no other.
C20_OnlyAndAllSkilledGeeks ==
    LET skills == ResolvedSkills(structured_issue[1])
        skilled(geek) ==
            geek.primarySkill \in skills \/ geek.secondarySkills \cap skills # {}
    IN  (mpc = "returned" /\ paging = <<>> /\ skills # {}) =>
            /\ suitable_geeks[1].raised = "no"
            /\ suitable_geeks[1].geeks = SelectSeq(directory.geeks, skilled)

\* entries (p-1)*n+1 .. p*n of a sequence
PageOf(seq, p, n) ==
    LET last == IF p * n < Len(seq) THEN p * n ELSE Len(seq)
    IN  SubSeq(seq, (p - 1) * n + 1, last)

\* C21: a call for page p with page size n raises no error and returns at
\* most n providers, which are entries (p-1)*n+1 .. p*n of what the call
\* without pagination returns for the same issue and directory; the pages
\* 1..k therefore concatenate to its first k*n entries.
C21_PageOfOrderedResult ==
    (mpc = "returned" /\ paging # <<>>) =>
        LET n == paging[1].page_size
            unpaginated == get_geeks_from_user_issue(directory, user_issue[1])
        IN  /\ suitable_geeks[1].raised = "no"
            /\ Len(suitable_geeks[1].geeks) <= n
            /\ suitable_geeks[1].geeks = PageOf(unpaginated.geeks, paging[1].page, n)

\* the identifiers of the names of an extracted object that resolve: the
\* category's, and the subcategory's when it differs from the category
NamedSkills(data) ==
    IF NoCategoryDetails(data) THEN {}
    ELSE LET d == data.category_details[1]
             C == IF d.category = <<>> THEN {}
                  ELSE IdsOfTitle(directory.categories, d.category[1])
             S == IF d.subcategory = <<>> \/ d.subcategory = d.category THEN {}
                  ELSE IdsOfTitle(directory.subcategories, d.subcategory[1])
         IN  C \cup S

\* the elements of a sequence
Range(seq) == {seq[i] : i \in 1..Len(seq)}

\* C22: the matcher raises no error over a name that does not resolve, and
\* the skill set it filters by is exactly the identifiers of the issue's
\* names that resolve, the subcategory's also when the category is absent
\* or does not resolve.
C22_SkillSetIsWhatResolves ==
    (mpc = "returned" /\ paging = <<>>) =>
        /\ suitable_geeks[1].raised = "no"
        /\ Range(skill_ids_of(directory, user_issue[1]))
               = NamedSkills(structured_issue[1])

\* the texts of the user messages of a transcript, in order
UserTexts(messages) ==
    LET users == SelectSeq(messages, LAMBDA m : m.sender = "USER")
    IN  [i \in 1..Len(users) |-> users[i].message]

\* sequence t ends with sequence s
IsSuffix(s, t) ==
    Len(s) <= Len(t) /\ SubSeq(t, Len(t) - Len(s) + 1, Len(t)) = s

\* C23: when the trigger test runs on a plain message, the message is in
\* the transcript store; the transcript read for the extractor ends with
\* the confirming "yes" and holds every plain message the connection has
\* received, in order; and the matcher is called only after the extractor
\* has returned.
C23_AppendThenCheckThenExtract ==
    \A c \in Chans :
        LET o == obs[c]
            stored == chat_messages[conversation_id[c]]
        IN  /\ o.state_at_check # "none" =>
                   /\ IsSuffix(o.plain, UserTexts(stored))
                   /\ o.plain[Len(o.plain)] = query[c]
            /\ o.extract_calls = 1 =>
                   /\ o.transcript # <<>>
                   /\ o.transcript[Len(o.transcript)].sender = "USER"
                   /\ o.transcript[Len(o.transcript)].message = query[c]
                   /\ Lower(query[c]) = Yes
                   /\ IsSuffix(o.plain, UserTexts(o.transcript))
            /\ (pc[c] \in {"match", "send_final"} \/ o.match_result # "none") =>
                   /\ o.extract_calls = 1
                   /\ o.extract_result = "valid"

\* a handoff ended by the break after two plain messages, both in the
\* transcript the extractor was given
C23_Witness ==
    \E c \in Chans :
        /\ pc[c] = "done"
        /\ obs[c].exit = "break"
        /\ obs[c].match_result = "returned"
        /\ Len(obs[c].plain) = 2
        /\ obs[c].plain[2] = Yes
        /\ UserTexts(obs[c].transcript) = obs[c].plain

\* the confirmation question is among the agent messages of the stored
\* transcript of a conversation
QuestionStored(cid) ==
    \E i \in 1..Len(BotMessages(cid)) :
        Contains(ConfirmPhrase, BotMessages(cid)[i].message)

\* C24: while a connection waits for the next message and its conversation
\* has an entry in agent_last_question, the entry is the reply whose text is
\* the last agent message of the stored transcript; no conversation is
\* AWAITING_CONFIRMATION, and no handoff starts, while the confirmation
\* question is missing from the stored transcript.
C24_EntryIsLastAgentMessage ==
    \A c \in Chans :
        LET cid == conversation_id[c]
            entry == Get(agent_last_question, cid)
            bot == BotMessages(cid)
        IN  /\ (pc[c] = "recv" /\ entry # <<>>) =>
                   /\ bot # <<>>
                   /\ JsonHasResponse(entry[1])
                   /\ bot[Len(bot)].message = JsonResponse(entry[1])
            /\ (pc[c] = "recv" /\ SessionState(agent_last_question, cid) = Awaiting) =>
                   QuestionStored(cid)
            /\ obs[c].terminal => QuestionStored(cid)

====
